---- MODULE Spec2Model ----
(***************************************************************************)
(* Model of pi_audio_debug.py: main() runs six diagnostic test functions   *)
(* one after another, each a sequence of calls into sounddevice, config    *)
(* and optimized_audio_processor guarded by try/except, and prints a       *)
(* summary.                                                                *)
(*                                                                         *)
(* Environment.  Every call into the audio library or a sibling module     *)
(* either returns ("ok") or raises an instance of Exception ("exc").       *)
(* The statement a test function executes before entering its try block    *)
(* either completes or raises an Exception, which then escapes to main().  *)
(* The prints of main() and the prints inside the try blocks and except    *)
(* clauses are taken to complete.                                          *)
(***************************************************************************)
EXTENDS Integers, Sequences, FiniteSets, TLC

VARIABLES
    pc,        \* position of main()
    idx,       \* 1-based position of the for loop of main() in tests
    results,   \* main(): list of <<test_name, result>>
    out,       \* lines printed by main(), in order
    passed,    \* main(): passed
    total,     \* main(): total
    sidx,      \* 1-based position of the summary loop in results
    tpc,       \* position inside the running test function, "idle" if none
    ret,       \* value returned by the test function that last returned
    tout,      \* lines printed by the test function invoked last
    calls,     \* <<call, outcome>> of the guarded calls of that function
    devices,   \* test_audio_devices(): devices
    didx,      \* test_audio_devices(): 1-based position of the listing loop
    inStream,  \* state of the InputStream of test_audio_stream()
    outStream, \* state of the OutputStream of test_audio_stream()
    invoked,   \* history: names of the test functions called by main()
    outcomes   \* history: how each called test function ended

vars == <<pc, idx, results, out, passed, total, sidx, tpc, ret, tout, calls,
          devices, didx, inStream, outStream, invoked, outcomes>>

mainVars == <<pc, idx, results, out, passed, total, sidx, invoked>>
devVars == <<devices, didx>>
streamVars == <<inStream, outStream>>

(***************************************************************************)
(* Bounds and input domains                                                *)
(***************************************************************************)
MaxDevices == 2

Outcome == {"ok", "exc"}

\* Device names as sequences of characters.
NameScarlettUpper == <<"S","C","A","R","L","E","T","T">>
NameFocusrite == <<"U","S","B"," ","2","I","2">>
NameMixed == <<"s","c","a","r","l","e","t","t"," ","2","i","2">>
NameScarlet == <<"S","c","a","r","l","e","t">>
NameBcm == <<"b","c","m","2","8","3","5"," ","2","i">>

DeviceNames == {NameScarlettUpper, NameFocusrite, NameMixed, NameScarlet, NameBcm}

AllKeys == {"name", "max_inputs", "max_outputs", "default_samplerate"}

\* Key sets of the device records the library may return.
KeySets == {AllKeys} \cup {AllKeys \ {k} : k \in AllKeys}

Device == [name : DeviceNames, keys : KeySets]

DeviceLists == UNION {[1..n -> Device] : n \in 0..MaxDevices}

(***************************************************************************)
(* Strings                                                                 *)
(***************************************************************************)
UpperLetters == <<"A","B","C","D","E","F","G","H","I","J","K","L","M",
                  "N","O","P","Q","R","S","T","U","V","W","X","Y","Z">>
LowerLetters == <<"a","b","c","d","e","f","g","h","i","j","k","l","m",
                  "n","o","p","q","r","s","t","u","v","w","x","y","z">>

LowerChar(c) ==
    IF \E i \in 1..Len(UpperLetters) : UpperLetters[i] = c
    THEN LowerLetters[CHOOSE i \in 1..Len(UpperLetters) : UpperLetters[i] = c]
    ELSE c

\* str.lower()
Lower(s) == [i \in 1..Len(s) |-> LowerChar(s[i])]

RECURSIVE StartsWithAt(_, _, _, _)
StartsWithAt(s, sub, p, j) ==
    IF j > Len(sub) THEN TRUE
    ELSE IF p + j - 1 > Len(s) THEN FALSE
    ELSE IF s[p + j - 1] # sub[j] THEN FALSE
    ELSE StartsWithAt(s, sub, p, j + 1)

RECURSIVE FindFrom(_, _, _)
FindFrom(s, sub, p) ==
    IF p + Len(sub) - 1 > Len(s) THEN FALSE
    ELSE IF StartsWithAt(s, sub, p, 1) THEN TRUE
    ELSE FindFrom(s, sub, p + 1)

\* sub in s
Contains(sub, s) == FindFrom(s, sub, 1)

PatScarlett == <<"s","c","a","r","l","e","t","t">>
Pat2i2 == <<"2","i","2">>

\* IsScarlett without .lower().
IsScarlettCaseSensitive(d) ==
    Contains(PatScarlett, d.name) \/ Contains(Pat2i2, d.name)

IsScarlett(d) ==
    Contains(PatScarlett, Lower(d.name)) \/ Contains(Pat2i2, Lower(d.name))

\* [d for d in devices if ...]
ScarlettDevices(ds) == SelectSeq(ds, IsScarlett)

(***************************************************************************)
(* Printed lines                                                           *)
(***************************************************************************)
\* kind: "ok" for a check-mark line, "fail" for a cross line, "warn" for a
\* warning line, "info" for the rest.
Line(kind, text, arg) == [kind |-> kind, text |-> text, arg |-> arg]

NoArg == <<>>

Tests == <<"Imports", "Audio Devices", "Basic Audio", "Configuration",
           "Audio Processor", "Audio Streams">>

\* First position of each test function.
Entry(name) ==
    CASE name = "Imports" -> "ti_hdr"
      [] name = "Audio Devices" -> "td_hdr"
      [] name = "Basic Audio" -> "tb_hdr"
      [] name = "Configuration" -> "tc_hdr"
      [] name = "Audio Processor" -> "tp_hdr"
      [] name = "Audio Streams" -> "ts_hdr"

Running == pc = "call" /\ tpc \notin {"idle", "ret", "raised"}

Init ==
    /\ pc = "banner"
    /\ idx = 1
    /\ results = <<>>
    /\ out = <<>>
    /\ passed = 0
    /\ total = 0
    /\ sidx = 1
    /\ tpc = "idle"
    /\ ret = FALSE
    /\ tout = <<>>
    /\ calls = <<>>
    /\ devices = <<>>
    /\ didx = 1
    /\ inStream = "none"
    /\ outStream = "none"
    /\ invoked = <<>>
    /\ outcomes = <<>>

(***************************************************************************)
(* Ends of a test function                                                 *)
(***************************************************************************)
\* return v
Return(v) ==
    /\ tpc' = "ret"
    /\ ret' = v
    /\ outcomes' = Append(outcomes, IF v THEN "True" ELSE "False")

\* except Exception as e: print(failure line); return False
ExceptReturnFalse(lines, text) ==
    /\ tout' = Append(lines, Line("fail", text, NoArg))
    /\ Return(FALSE)

\* The statement before the try block: it prints the heading, or raises.
Heading(at, text, next) ==
    /\ pc = "call"
    /\ tpc = at
    /\ \E o \in Outcome :
        IF o = "ok"
        THEN /\ tout' = Append(tout, Line("info", text, NoArg))
             /\ tpc' = next
             /\ UNCHANGED <<ret, outcomes>>
        ELSE /\ tpc' = "raised"
             /\ outcomes' = Append(outcomes, "raised")
             /\ UNCHANGED <<ret, tout>>
    /\ UNCHANGED <<mainVars, calls, devVars, streamVars>>

\* Guarded with an except clause that re-raises instead of returning False.
GuardedReraises(at, call, okLines, next, failText) ==
    /\ pc = "call"
    /\ tpc = at
    /\ \E o \in Outcome :
        /\ calls' = Append(calls, <<call, o>>)
        /\ IF o = "ok"
           THEN /\ tout' = tout \o okLines
                /\ IF next = "ret"
                   THEN Return(TRUE)
                   ELSE tpc' = next /\ UNCHANGED <<ret, outcomes>>
           ELSE /\ tout' = Append(tout, Line("fail", failText, NoArg))
                /\ tpc' = "raised"
                /\ outcomes' = Append(outcomes, "raised")
                /\ UNCHANGED ret
    /\ UNCHANGED <<mainVars, devVars, streamVars>>

\* A guarded call: on success print okLines and go to next (or return True
\* when next is "ret"); on an Exception run the except clause.
Guarded(at, call, okLines, next, failText) ==
    /\ pc = "call"
    /\ tpc = at
    /\ \E o \in Outcome :
        /\ calls' = Append(calls, <<call, o>>)
        /\ IF o = "ok"
           THEN /\ tout' = tout \o okLines
                /\ IF next = "ret"
                   THEN Return(TRUE)
                   ELSE tpc' = next /\ UNCHANGED <<ret, outcomes>>
           ELSE ExceptReturnFalse(tout, failText)
    /\ UNCHANGED <<mainVars, devVars, streamVars>>

(***************************************************************************)
(* test_imports                                                            *)
(***************************************************************************)
TestImportsHeading == Heading("ti_hdr", "Testing imports...", "ti_sd")

ImportSounddevice ==
    Guarded("ti_sd", "import sounddevice",
            <<Line("ok", "sounddevice imported", NoArg)>>,
            "ti_cfg", "sounddevice import failed")

\* ImportConfig whose except clause lacks "return False".
ImportConfigFallsThrough ==
    /\ pc = "call"
    /\ tpc = "ti_cfg"
    /\ \E o \in Outcome :
        /\ calls' = Append(calls, <<"import config", o>>)
        /\ tout' = Append(tout, IF o = "ok"
                                THEN Line("ok", "config imported", NoArg)
                                ELSE Line("fail", "config import failed", NoArg))
        /\ tpc' = "ti_oap"
    /\ UNCHANGED <<mainVars, ret, outcomes, devVars, streamVars>>

ImportConfig ==
    Guarded("ti_cfg", "import config",
            <<Line("ok", "config imported", NoArg)>>,
            "ti_oap", "config import failed")

\* The statements after "return False" in the except clause and the second
\* except clause of this try are never executed.
ImportProcessor ==
    Guarded("ti_oap", "import optimized_audio_processor",
            <<Line("ok", "OptimizedAudioProcessor imported", NoArg)>>,
            "ret", "OptimizedAudioProcessor import failed")

(***************************************************************************)
(* test_audio_devices                                                      *)
(***************************************************************************)
TestAudioDevicesHeading == Heading("td_hdr", "Testing audio devices...", "td_import")

DevicesImport ==
    Guarded("td_import", "import sounddevice", <<>>, "td_query",
            "Audio device test failed")

QueryDevices ==
    /\ pc = "call"
    /\ tpc = "td_query"
    /\ \E o \in Outcome :
        /\ calls' = Append(calls, <<"sd.query_devices", o>>)
        /\ IF o = "ok"
           THEN \E ds \in DeviceLists :
                /\ devices' = ds
                /\ tout' = Append(tout, Line("info", "Found audio devices", NoArg))
                /\ tpc' = "td_list"
                /\ UNCHANGED <<ret, outcomes>>
           ELSE /\ ExceptReturnFalse(tout, "Audio device test failed")
                /\ UNCHANGED devices
    /\ UNCHANGED <<mainVars, didx, streamVars>>

\* The keys one iteration of the listing loop reads, in order.
ListedKeys == <<"name", "max_inputs", "max_outputs", "default_samplerate">>

\* Number of keys of d read before the first missing one.
RECURSIVE KeysRead(_, _)
KeysRead(d, k) ==
    IF k > Len(ListedKeys) THEN Len(ListedKeys)
    ELSE IF ListedKeys[k] \notin d.keys THEN k - 1
    ELSE KeysRead(d, k + 1)

\* The line printed for key number k of device d.
DeviceLine(d, k) ==
    IF ListedKeys[k] = "name" THEN Line("info", "device", d.name)
    ELSE Line("info", ListedKeys[k], NoArg)

\* One iteration of "for i, device in enumerate(devices)".
ListDevice ==
    /\ pc = "call"
    /\ tpc = "td_list"
    /\ didx <= Len(devices)
    /\ LET d == devices[didx]
           n == KeysRead(d, 1)
           printed == [k \in 1..n |-> DeviceLine(d, k)]
       IN IF n = Len(ListedKeys)
          THEN /\ tout' = tout \o printed
               /\ didx' = didx + 1
               /\ UNCHANGED <<tpc, ret, outcomes>>
          ELSE /\ ExceptReturnFalse(tout \o printed, "Audio device test failed")
               /\ UNCHANGED didx
    /\ UNCHANGED <<mainVars, calls, devices, streamVars>>

FindScarlett ==
    /\ pc = "call"
    /\ tpc = "td_list"
    /\ didx > Len(devices)
    /\ LET scarlett_devices == ScarlettDevices(devices)
       IN tout' = Append(tout,
                    IF scarlett_devices # <<>>
                    THEN Line("ok", "Found Scarlett 2i2", scarlett_devices[1].name)
                    ELSE Line("warn", "Scarlett 2i2 not found", NoArg))
    /\ Return(TRUE)
    /\ UNCHANGED <<mainVars, calls, devVars, streamVars>>

(***************************************************************************)
(* test_basic_audio                                                        *)
(***************************************************************************)
TestBasicAudioHeading == Heading("tb_hdr", "Testing basic audio...", "tb_import")

BasicImport ==
    Guarded("tb_import", "import sounddevice",
            <<Line("info", "Testing audio output...", NoArg)>>,
            "tb_play", "Basic audio test failed")

\* Play with the exception of sd.play swallowed.
PlaySwallows ==
    /\ pc = "call"
    /\ tpc = "tb_play"
    /\ \E o \in Outcome : calls' = Append(calls, <<"sd.play", o>>)
    /\ tpc' = "tb_wait"
    /\ UNCHANGED <<mainVars, ret, tout, outcomes, devVars, streamVars>>

Play ==
    Guarded("tb_play", "sd.play", <<>>, "tb_wait", "Basic audio test failed")

Wait ==
    Guarded("tb_wait", "sd.wait",
            <<Line("ok", "Audio output test passed", NoArg)>>,
            "ret", "Basic audio test failed")

(***************************************************************************)
(* test_config                                                             *)
(***************************************************************************)
TestConfigHeading == Heading("tc_hdr", "Testing configuration...", "tc_import")

ConfigImport ==
    Guarded("tc_import", "import config", <<>>, "tc_ctor", "Config test failed")

ConfigCtor ==
    Guarded("tc_ctor", "Config()",
            <<Line("ok", "Config loaded", NoArg)>>,
            "tc_attrs", "Config test failed")

ConfigAttrs == <<"Platform", "Sample rate", "Chunk size", "Default tempo">>

\* Reads n attributes of the object and prints one line for each; the read
\* after the n-th raises when n is below the number of attributes.
ReadAndPrint(at, names, failText) ==
    /\ pc = "call"
    /\ tpc = at
    /\ \E n \in 0..Len(names) :
        LET printed == [k \in 1..n |-> Line("info", names[k], NoArg)]
        IN IF n = Len(names)
           THEN /\ tout' = tout \o printed
                /\ Return(TRUE)
           ELSE ExceptReturnFalse(tout \o printed, failText)
    /\ UNCHANGED <<mainVars, calls, devVars, streamVars>>

PrintConfig == ReadAndPrint("tc_attrs", ConfigAttrs, "Config test failed")

(***************************************************************************)
(* test_audio_processor                                                    *)
(***************************************************************************)
TestAudioProcessorHeading == Heading("tp_hdr", "Testing audio processor...", "tp_import_oap")

ProcessorImport ==
    Guarded("tp_import_oap", "import optimized_audio_processor", <<>>,
            "tp_import_cfg", "Audio processor test failed")

ProcessorImportConfig ==
    Guarded("tp_import_cfg", "import config", <<>>, "tp_config",
            "Audio processor test failed")

ProcessorConfig ==
    Guarded("tp_config", "Config()", <<>>, "tp_ctor", "Audio processor test failed")

ProcessorCtor ==
    Guarded("tp_ctor", "OptimizedAudioProcessor(config)",
            <<Line("ok", "OptimizedAudioProcessor initialized", NoArg)>>,
            "tp_status", "Audio processor test failed")

GetStatus ==
    Guarded("tp_status", "get_status()", <<>>, "tp_keys",
            "Audio processor test failed")

StatusKeys == <<"Buffer size", "Sample rate", "Active effects">>

PrintStatus == ReadAndPrint("tp_keys", StatusKeys, "Audio processor test failed")

(***************************************************************************)
(* test_audio_stream                                                       *)
(*                                                                         *)
(* "with sd.InputStream(...) as stream: body" creates and enters the       *)
(* stream (open), runs the body, and leaves the block, which calls the     *)
(* stream's __exit__ (close).  A stream is "none" before it is opened,     *)
(* "open" once the with statement has entered it, "closed" once __exit__   *)
(* has returned, and "close_raised" once __exit__ has raised.              *)
(***************************************************************************)
TestAudioStreamHeading == Heading("ts_hdr", "Testing audio stream...", "ts_import")

StreamImport ==
    Guarded("ts_import", "import sounddevice",
            <<Line("info", "Testing input stream...", NoArg)>>,
            "ts_in_open", "Audio stream test failed")

\* OpenInputStream without the with statement: the stream is never closed.
OpenInputStreamNoWith ==
    /\ pc = "call"
    /\ tpc = "ts_in_open"
    /\ \E o \in Outcome :
        /\ calls' = Append(calls, <<"InputStream open", o>>)
        /\ IF o = "ok"
           THEN /\ inStream' = "open"
                /\ tout' = tout \o
                      <<Line("ok", "Input stream created successfully", NoArg),
                        Line("info", "Testing output stream...", NoArg)>>
                /\ tpc' = "ts_out_open"
                /\ UNCHANGED <<ret, outcomes>>
           ELSE /\ ExceptReturnFalse(tout, "Audio stream test failed")
                /\ UNCHANGED inStream
    /\ UNCHANGED <<mainVars, devVars, outStream>>

OpenInputStream ==
    /\ pc = "call"
    /\ tpc = "ts_in_open"
    /\ \E o \in Outcome :
        /\ calls' = Append(calls, <<"InputStream open", o>>)
        /\ IF o = "ok"
           THEN /\ inStream' = "open"
                /\ tout' = Append(tout, Line("ok", "Input stream created successfully", NoArg))
                /\ tpc' = "ts_in_close"
                /\ UNCHANGED <<ret, outcomes>>
           ELSE /\ ExceptReturnFalse(tout, "Audio stream test failed")
                /\ UNCHANGED inStream
    /\ UNCHANGED <<mainVars, devVars, outStream>>

CloseInputStream ==
    /\ pc = "call"
    /\ tpc = "ts_in_close"
    /\ \E o \in Outcome :
        /\ calls' = Append(calls, <<"InputStream close", o>>)
        /\ IF o = "ok"
           THEN /\ inStream' = "closed"
                /\ tout' = Append(tout, Line("info", "Testing output stream...", NoArg))
                /\ tpc' = "ts_out_open"
                /\ UNCHANGED <<ret, outcomes>>
           ELSE /\ inStream' = "close_raised"
                /\ ExceptReturnFalse(tout, "Audio stream test failed")
    /\ UNCHANGED <<mainVars, devVars, outStream>>

OpenOutputStream ==
    /\ pc = "call"
    /\ tpc = "ts_out_open"
    /\ \E o \in Outcome :
        /\ calls' = Append(calls, <<"OutputStream open", o>>)
        /\ IF o = "ok"
           THEN /\ outStream' = "open"
                /\ tout' = Append(tout, Line("ok", "Output stream created successfully", NoArg))
                /\ tpc' = "ts_out_close"
                /\ UNCHANGED <<ret, outcomes>>
           ELSE /\ ExceptReturnFalse(tout, "Audio stream test failed")
                /\ UNCHANGED outStream
    /\ UNCHANGED <<mainVars, devVars, inStream>>

CloseOutputStream ==
    /\ pc = "call"
    /\ tpc = "ts_out_close"
    /\ \E o \in Outcome :
        /\ calls' = Append(calls, <<"OutputStream close", o>>)
        /\ IF o = "ok"
           THEN /\ outStream' = "closed"
                /\ UNCHANGED tout
                /\ Return(TRUE)
           ELSE /\ outStream' = "close_raised"
                /\ ExceptReturnFalse(tout, "Audio stream test failed")
    /\ UNCHANGED <<mainVars, devVars, inStream>>

(***************************************************************************)
(* main                                                                    *)
(***************************************************************************)
testVars == <<tpc, ret, tout, calls, devVars, streamVars, outcomes>>

Banner ==
    /\ pc = "banner"
    /\ out' = Append(out, <<"banner">>)
    /\ pc' = "loop"
    /\ UNCHANGED <<idx, results, passed, total, sidx, invoked, testVars>>

\* for test_name, test_func in tests: ... test_func()
InvokeTest ==
    /\ pc = "loop"
    /\ idx <= Len(Tests)
    /\ pc' = "call"
    /\ invoked' = Append(invoked, Tests[idx])
    /\ tpc' = Entry(Tests[idx])
    /\ tout' = <<>>
    /\ calls' = <<>>
    /\ devices' = <<>>
    /\ didx' = 1
    /\ inStream' = "none"
    /\ outStream' = "none"
    /\ UNCHANGED <<idx, results, out, passed, total, sidx, ret, outcomes>>

\* result = test_func(); results.append((test_name, result))
RecordResult ==
    /\ pc = "call"
    /\ tpc = "ret"
    /\ results' = Append(results, <<Tests[idx], ret>>)
    /\ idx' = idx + 1
    /\ tpc' = "idle"
    /\ pc' = "loop"
    /\ UNCHANGED <<out, passed, total, sidx, invoked, ret, tout, calls,
                   devVars, streamVars, outcomes>>

\* RecordCrash with the try/except around the loop instead of inside it.
RecordCrashLeavesLoop ==
    /\ pc = "call"
    /\ tpc = "raised"
    /\ out' = Append(out, <<"crash", Tests[idx]>>)
    /\ results' = Append(results, <<Tests[idx], FALSE>>)
    /\ idx' = Len(Tests) + 1
    /\ tpc' = "idle"
    /\ pc' = "loop"
    /\ UNCHANGED <<passed, total, sidx, invoked, ret, tout, calls,
                   devVars, streamVars, outcomes>>

\* RecordCrash that prints the crash line and records nothing.
RecordCrashNoEntry ==
    /\ pc = "call"
    /\ tpc = "raised"
    /\ out' = Append(out, <<"crash", Tests[idx]>>)
    /\ idx' = idx + 1
    /\ tpc' = "idle"
    /\ pc' = "loop"
    /\ UNCHANGED <<results, passed, total, sidx, invoked, ret, tout, calls,
                   devVars, streamVars, outcomes>>

\* main() without the except clause: the exception ends the program.
RecordCrashAborts ==
    /\ pc = "call"
    /\ tpc = "raised"
    /\ pc' = "aborted"
    /\ tpc' = "idle"
    /\ UNCHANGED <<idx, results, out, passed, total, sidx, invoked, ret, tout,
                   calls, devVars, streamVars, outcomes>>

\* except Exception as e: print(crash line); results.append((test_name, False))
RecordCrash ==
    /\ pc = "call"
    /\ tpc = "raised"
    /\ out' = Append(out, <<"crash", Tests[idx]>>)
    /\ results' = Append(results, <<Tests[idx], FALSE>>)
    /\ idx' = idx + 1
    /\ tpc' = "idle"
    /\ pc' = "loop"
    /\ UNCHANGED <<passed, total, sidx, invoked, ret, tout, calls,
                   devVars, streamVars, outcomes>>

\* The loop is exhausted: print the summary heading, passed = 0,
\* total = len(results).
SummaryHeading ==
    /\ pc = "loop"
    /\ idx > Len(Tests)
    /\ out' = Append(out, <<"heading">>)
    /\ passed' = 0
    /\ total' = Len(results)
    /\ sidx' = 1
    /\ pc' = "summary"
    /\ UNCHANGED <<idx, results, invoked, testVars>>

\* StatusOf that tests "result is not None".
StatusOfAlwaysPass(result) == IF result \in BOOLEAN THEN "PASS" ELSE "FAIL"

\* status = "PASS" if result else "FAIL"
StatusOf(result) == IF result THEN "PASS" ELSE "FAIL"

\* One iteration of "for test_name, result in results".
SummaryLine ==
    /\ pc = "summary"
    /\ sidx <= Len(results)
    /\ LET test_name == results[sidx][1]
           result == results[sidx][2]
       IN /\ out' = Append(out, <<"summary", test_name, StatusOf(result)>>)
          /\ passed' = IF result THEN passed + 1 ELSE passed
    /\ sidx' = sidx + 1
    /\ UNCHANGED <<pc, idx, results, total, invoked, testVars>>

\* print(f"Overall: {passed}/{total} tests passed")
Overall ==
    /\ pc = "summary"
    /\ sidx > Len(results)
    /\ out' = Append(out, <<"overall", passed, total>>)
    /\ pc' = "closing"
    /\ UNCHANGED <<idx, results, passed, total, sidx, invoked, testVars>>

\* AllPassed that tests "passed > 0".
AllPassedIfAny(p, t) == p > 0

\* if passed == total
AllPassed(p, t) == p = t

Closing ==
    /\ pc = "closing"
    /\ out' = Append(out, <<"closing", IF AllPassed(passed, total) THEN "all" ELSE "some">>)
    /\ pc' = "done"
    /\ UNCHANGED <<idx, results, passed, total, sidx, invoked, testVars>>

Next ==
    \/ Banner
    \/ InvokeTest
    \/ RecordResult
    \/ RecordCrash
    \/ SummaryHeading
    \/ SummaryLine
    \/ Overall
    \/ Closing
    \/ TestImportsHeading
    \/ ImportSounddevice
    \/ ImportConfig
    \/ ImportProcessor
    \/ TestAudioDevicesHeading
    \/ DevicesImport
    \/ QueryDevices
    \/ ListDevice
    \/ FindScarlett
    \/ TestBasicAudioHeading
    \/ BasicImport
    \/ Play
    \/ Wait
    \/ TestConfigHeading
    \/ ConfigImport
    \/ ConfigCtor
    \/ PrintConfig
    \/ TestAudioProcessorHeading
    \/ ProcessorImport
    \/ ProcessorImportConfig
    \/ ProcessorConfig
    \/ ProcessorCtor
    \/ GetStatus
    \/ PrintStatus
    \/ TestAudioStreamHeading
    \/ StreamImport
    \/ OpenInputStream
    \/ CloseInputStream
    \/ OpenOutputStream
    \/ CloseOutputStream

Spec == Init /\ [][Next]_vars

\* main() is one thread of control: whenever a step is possible, one is taken.
LiveSpec == Spec /\ WF_vars(Next)

(***************************************************************************)
(* Properties                                                              *)
(***************************************************************************)
Last(q) == q[Len(q)]

CountKind(lines, kind) == Len(SelectSeq(lines, LAMBDA l : l.kind = kind))

HasText(lines, text) == \E i \in 1..Len(lines) : lines[i].text = text

SomeCallRaised == \E i \in 1..Len(calls) : calls[i][2] = "exc"

\* The test function invoked last has ended by returning.
Returned ==
    /\ tpc \in {"ret", "idle"}
    /\ invoked # <<>>
    /\ Len(outcomes) = Len(invoked)
    /\ Last(outcomes) # "raised"

AfterLoop == pc \in {"summary", "closing", "done"}

SummaryLines == SelectSeq(out, LAMBDA l : l[1] = "summary")

\* C1: main() calls the six tests once each in the order of the tests list,
\* a test is called only when every test called before it has returned or
\* raised, and the loop ends with all six called whatever their outcomes.
C1_Sequential ==
    /\ Len(invoked) <= Len(Tests)
    /\ \A i \in 1..Len(invoked) : invoked[i] = Tests[i]
    /\ Len(outcomes) <= Len(invoked)
    /\ Len(invoked) <= Len(outcomes) + 1
    /\ (Running => Len(invoked) = Len(outcomes) + 1)
    /\ (pc = "loop" => Len(invoked) = Len(outcomes))
    /\ (AfterLoop => invoked = Tests /\ Len(outcomes) = Len(Tests))

C1_Witness ==
    /\ pc = "done"
    /\ invoked = Tests
    /\ outcomes[1] = "raised"
    /\ outcomes[2] = "False"
    /\ outcomes[6] = "True"

\* C2: once a guarded call of a test function has raised, the function has
\* returned False with a failure line printed last and has not raised; a
\* function that returned True had no call raise.
C2_ExceptionsConverted ==
    /\ SomeCallRaised =>
          /\ Returned
          /\ Last(outcomes) = "False"
          /\ (tpc = "ret" => ret = FALSE)
          /\ Last(calls)[2] = "exc"
          /\ tout # <<>>
          /\ Last(tout).kind = "fail"
    /\ (Returned /\ Last(outcomes) = "True") => ~SomeCallRaised

C2_Witness ==
    /\ tpc = "ret"
    /\ Last(invoked) = "Audio Processor"
    /\ Last(calls) = <<"get_status()", "exc">>
    /\ ret = FALSE

\* C3: the summary is printed after the loop, one line per test in the
\* order the tests ran, PASS exactly for the tests that returned True, and
\* the total reported is 6.
C3_Summary ==
    /\ (~AfterLoop => SummaryLines = <<>>)
    /\ (pc \in {"closing", "done"} =>
          /\ Len(SummaryLines) = 6
          /\ \A i \in 1..Len(SummaryLines) :
                /\ SummaryLines[i][2] = invoked[i]
                /\ SummaryLines[i][3] \in {"PASS", "FAIL"}
                /\ (SummaryLines[i][3] = "PASS" <=> outcomes[i] = "True")
          /\ \E i \in 1..Len(out) :
                /\ out[i][1] = "overall"
                /\ out[i][3] = 6
                /\ \A j \in 1..Len(out) : out[j][1] = "overall" => j = i)

C3_Witness ==
    /\ pc = "done"
    /\ outcomes[1] = "True"
    /\ outcomes[2] = "False"
    /\ outcomes[3] = "raised"

PassedResults == {i \in 1..Len(results) : results[i][2]}

ClosingLines == SelectSeq(out, LAMBDA l : l[1] = "closing")

\* C4: passed counts the results that are True and lies between 0 and
\* total; exactly one closing message is printed, the "all passed" one
\* exactly when all six tests returned True.
C4_Passed ==
    /\ 0 <= passed /\ passed <= Len(results)
    /\ (pc = "summary" =>
          /\ passed = Cardinality({i \in PassedResults : i < sidx})
          /\ passed <= total)
    /\ (pc \in {"closing", "done"} =>
          /\ passed = Cardinality(PassedResults)
          /\ passed <= total
          /\ \E i \in 1..Len(out) :
                out[i][1] = "overall" /\ out[i][2] = passed /\ out[i][3] = total)
    /\ (pc # "done" => ClosingLines = <<>>)
    /\ (pc = "done" =>
          /\ Len(ClosingLines) = 1
          /\ (ClosingLines[1][2] = "all" <=>
                \A i \in 1..Len(Tests) : outcomes[i] = "True")
          /\ (ClosingLines[1][2] = "some" <=>
                \E i \in 1..Len(Tests) : outcomes[i] # "True"))

C4_Witness ==
    /\ pc = "done"
    /\ passed = 1
    /\ total = 6
    /\ ClosingLines = << <<"closing", "some">> >>

C4_WitnessAll ==
    /\ pc = "done"
    /\ passed = 6
    /\ ClosingLines = << <<"closing", "all">> >>

CrashLines == SelectSeq(out, LAMBDA l : l[1] = "crash")

\* C5: a test that raises to main() gets a crash line and the result False,
\* and the loop goes on: results holds one entry per test called, in the
\* order of the tests list, and all six after the loop.
C5_Crash ==
    /\ Len(results) <= Len(outcomes)
    /\ Len(outcomes) <= Len(results) + 1
    /\ \A i \in 1..Len(results) :
          /\ results[i][1] = Tests[i]
          /\ (outcomes[i] = "raised" =>
                /\ results[i][2] = FALSE
                /\ \E j \in 1..Len(CrashLines) : CrashLines[j][2] = Tests[i])
    /\ Len(CrashLines) =
          Cardinality({i \in 1..Len(results) : outcomes[i] = "raised"})
    /\ (pc = "loop" => Len(results) = Len(outcomes) /\ idx = Len(results) + 1)
    /\ (AfterLoop => Len(results) = Len(Tests) /\ invoked = Tests)

C5_Witness ==
    /\ pc = "done"
    /\ outcomes[3] = "raised"
    /\ outcomes[4] = "True"
    /\ results[3] = <<"Basic Audio", FALSE>>
    /\ Len(results) = 6

ImportOrder == <<"import sounddevice", "import config",
                 "import optimized_audio_processor">>

ImportSuccess == <<"sounddevice imported", "config imported",
                   "OptimizedAudioProcessor imported">>

OkLines(lines) == SelectSeq(lines, LAMBDA l : l.kind = "ok")

\* C6: test_imports tries sounddevice, config, optimized_audio_processor in
\* this order and stops at the first import that raises, having printed the
\* success lines of the imports before it; it returns True exactly when all
\* three succeeded, with three success lines and no failure line.
C6_Imports ==
    Len(invoked) = 1 =>
        /\ Len(calls) <= 3
        /\ \A i \in 1..Len(calls) :
              /\ calls[i][1] = ImportOrder[i]
              /\ (i < Len(calls) => calls[i][2] = "ok")
        /\ (Returned =>
              LET n == Len(calls)
                  allOk == n = 3 /\ \A i \in 1..3 : calls[i][2] = "ok"
              IN /\ n >= 1
                 /\ (Last(outcomes) = "True" <=> allOk)
                 /\ (allOk =>
                       /\ Len(OkLines(tout)) = 3
                       /\ CountKind(tout, "fail") = 0)
                 /\ (~allOk =>
                       /\ calls[n][2] = "exc"
                       /\ Len(OkLines(tout)) = n - 1
                       /\ CountKind(tout, "fail") = 1)
                 /\ \A i \in 1..Len(OkLines(tout)) :
                       OkLines(tout)[i].text = ImportSuccess[i])

C6_Witness ==
    /\ Len(invoked) = 1
    /\ tpc = "ret"
    /\ calls = << <<"import sounddevice", "ok">>, <<"import config", "exc">> >>
    /\ ret = FALSE

\* Two characters that are equal up to the case of a letter.
SameLetter(a, b) ==
    \/ a = b
    \/ \E i \in 1..Len(UpperLetters) :
          {a, b} = {UpperLetters[i], LowerLetters[i]}

\* name contains pat, case-insensitively.
Occurs(pat, name) ==
    \E p \in 1..Len(name) :
        /\ p + Len(pat) - 1 <= Len(name)
        /\ \A j \in 1..Len(pat) : SameLetter(name[p + j - 1], pat[j])

NamedScarlett(name) == Occurs(PatScarlett, name) \/ Occurs(Pat2i2, name)

FoundLines == SelectSeq(tout, LAMBDA l : l.text = "Found Scarlett 2i2")

NotFoundLines == SelectSeq(tout, LAMBDA l : l.text = "Scarlett 2i2 not found")

Enumerated ==
    /\ Len(invoked) = 2
    /\ <<"sd.query_devices", "ok">> \in {calls[i] : i \in 1..Len(calls)}
    /\ \A i \in 1..Len(devices) : devices[i].keys = AllKeys
    /\ tpc \in {"ret", "idle"}

\* C7: when the enumeration succeeds and every record has the four fields,
\* test_audio_devices reports "found" exactly when some device name contains
\* "scarlett" or "2i2" in any case, names the first such device, prints
\* exactly one of the two messages, and returns True either way.
C7_Scarlett ==
    Enumerated =>
        LET matches == {i \in 1..Len(devices) : NamedScarlett(devices[i].name)}
        IN /\ Returned
           /\ Last(outcomes) = "True"
           /\ Len(FoundLines) + Len(NotFoundLines) = 1
           /\ (Len(FoundLines) = 1 <=> matches # {})
           /\ (matches # {} =>
                 LET first == CHOOSE i \in matches : \A j \in matches : i <= j
                 IN /\ FoundLines[1].arg = devices[first].name
                    /\ FoundLines[1].kind = "ok")
           /\ (matches = {} => NotFoundLines[1].kind = "warn")

C7_Witness ==
    /\ Enumerated
    /\ tpc = "ret"
    /\ Len(devices) = 2
    /\ devices[1].name = NameBcm
    /\ devices[2].name = NameScarlettUpper
    /\ Len(FoundLines) = 1
    /\ FoundLines[1].arg = NameScarlettUpper

C7_WitnessNotFound ==
    /\ Enumerated
    /\ tpc = "ret"
    /\ Len(devices) = 2
    /\ Len(NotFoundLines) = 1
    /\ ret = TRUE

CallIndex(c) == {i \in 1..Len(calls) : calls[i] = c}

C8_WitnessTrue ==
    /\ Len(invoked) = 6
    /\ tpc = "ret"
    /\ ret = TRUE
    /\ inStream = "closed"
    /\ outStream = "closed"

\* C9: main() terminates: it eventually prints the summary, after exactly
\* six test invocations.
C9_Terminates ==
    <>(/\ pc = "done"
       /\ Len(invoked) = 6
       /\ Len(SummaryLines) = 6
       /\ Len(ClosingLines) = 1)

C9_Witness ==
    /\ pc = "done"
    /\ Len(invoked) = 6
    /\ outcomes[2] = "raised"
    /\ outcomes[5] = "False"
    /\ Len(SummaryLines) = 6

\* C10: a test function that returns False has printed exactly one failure
\* line, as its last line, and one that returns True has printed none; in
\* test_basic_audio the "passed" line is printed only after sd.play and then
\* sd.wait returned, and sd.wait is not called after sd.play raised.
C10_FailureLines ==
    /\ Returned =>
          /\ (Last(outcomes) = "False" =>
                /\ CountKind(tout, "fail") = 1
                /\ Last(tout).kind = "fail")
          /\ (Last(outcomes) = "True" => CountKind(tout, "fail") = 0)
    /\ Len(invoked) = 3 =>
          /\ HasText(tout, "Audio output test passed") =>
                \E i, j \in 1..Len(calls) :
                    /\ i < j
                    /\ calls[i] = <<"sd.play", "ok">>
                    /\ calls[j] = <<"sd.wait", "ok">>
          /\ CallIndex(<<"sd.play", "exc">>) # {} =>
                \A i \in 1..Len(calls) : calls[i][1] # "sd.wait"

C10_Witness ==
    /\ Len(invoked) = 6
    /\ tpc = "ret"
    /\ ret = FALSE
    /\ HasText(tout, "Input stream created successfully")
    /\ CountKind(tout, "ok") = 1
    /\ Last(tout).kind = "fail"

C10_WitnessPlay ==
    /\ Len(invoked) = 3
    /\ tpc = "ret"
    /\ Last(calls) = <<"sd.play", "exc">>

====
